---- MODULE Spec2Model ----
(***************************************************************************)
(* Model of the ST-900 GPS tracker gateway: the TCP connection manager     *)
(* (server.js), the packet parser (parser.js) and the part of the storage  *)
(* layer the ingestion path calls (database.js).                           *)
(*                                                                         *)
(* Text is modelled by TLA+ strings, processed character by character the  *)
(* way the JavaScript string methods and regular expressions do.           *)
(* JavaScript numbers are modelled exactly as integers counting units of   *)
(* 1/Denom (Denom = 60 * 10^4), so that decimal numerals with up to four   *)
(* fractional digits and division of minutes by 60 are exact.  NaN is the  *)
(* separate value NaN.  Instants are pairs <<seconds since the epoch,      *)
(* milliseconds>>; ISO strings are produced and parsed digit by digit.     *)
(***************************************************************************)
EXTENDS Integers, Sequences, FiniteSets, TLC

(***************************************************************************)
(* Characters and strings                                                  *)
(***************************************************************************)
\* the characters of s at positions a..b, cut to the positions s has
Slice(s, a, b) ==
  LET lo == IF a < 1 THEN 1 ELSE a
      hi == IF b > Len(s) THEN Len(s) ELSE b
  IN  IF lo > hi THEN "" ELSE SubSeq(s, lo, hi)

\* the character of s at position i, "" past the end
Ch(s, i) == Slice(s, i, i)

Digits == {"0", "1", "2", "3", "4", "5", "6", "7", "8", "9"}

DigitVal(c) ==
  CASE c = "0" -> 0 [] c = "1" -> 1 [] c = "2" -> 2 [] c = "3" -> 3
    [] c = "4" -> 4 [] c = "5" -> 5 [] c = "6" -> 6 [] c = "7" -> 7
    [] c = "8" -> 8 [] c = "9" -> 9

DigitChar(d) ==
  CASE d = 0 -> "0" [] d = 1 -> "1" [] d = 2 -> "2" [] d = 3 -> "3"
    [] d = 4 -> "4" [] d = 5 -> "5" [] d = 6 -> "6" [] d = 7 -> "7"
    [] d = 8 -> "8" [] d = 9 -> "9"

UpperCase == "ABCDEFGHIJKLMNOPQRSTUVWXYZ"

LowerCase == "abcdefghijklmnopqrstuvwxyz"

\* the least and the greatest element of a set of positions
Min(S) == CHOOSE j \in S : \A k \in S : j <= k

Max(S) == CHOOSE j \in S : \A k \in S : j >= k

\* position of the first occurrence of the character c at or after i, 0 if none
IndexFrom(s, c, i) ==
  LET First(hits) == IF hits = {} THEN 0 ELSE Min(hits)
  IN  First({j \in i..Len(s) : Ch(s, j) = c})

\* the lower-case letter of an upper-case letter, every other character as is
LowerCh(c) ==
  IF c # "" /\ IndexFrom(UpperCase, c, 1) > 0
    THEN Ch(LowerCase, IndexFrom(UpperCase, c, 1))
    ELSE c

\* the string is lowered half by half
RECURSIVE toLowerCase(_)
toLowerCase(s) ==
  IF Len(s) <= 1 THEN LowerCh(s)
  ELSE toLowerCase(Slice(s, 1, Len(s) \div 2))
         \o toLowerCase(Slice(s, Len(s) \div 2 + 1, Len(s)))

Letters ==
  {Ch(UpperCase, i) : i \in 1..26} \cup {Ch(LowerCase, i) : i \in 1..26}

\* \w of a regular expression: letters, digits and underscore
WordChars == Digits \cup Letters \cup {"_"}

\* \s of a regular expression, also what String.prototype.trim removes
IsSpace(c) == c \in {" ", "\n", "\r", "\t"}

RECURSIVE trimStart(_)
trimStart(s) ==
  IF s # "" /\ IsSpace(Head(s)) THEN trimStart(Tail(s)) ELSE s

RECURSIVE trimEnd(_)
trimEnd(s) ==
  IF s # "" /\ IsSpace(Ch(s, Len(s)))
    THEN trimEnd(Slice(s, 1, Len(s) - 1))
    ELSE s

trim(s) == trimEnd(trimStart(s))

startsWith(s, p) == Len(s) >= Len(p) /\ Slice(s, 1, Len(p)) = p

endsWith(s, p) ==
  Len(s) >= Len(p) /\ Slice(s, Len(s) - Len(p) + 1, Len(s)) = p

\* String.prototype.substr(start, length), start counted from 0
substr(s, start, n) == Slice(s, start + 1, start + n)

\* String.prototype.split on a one-character separator: part n lies between
\* the separators number n - 1 and n, the ends of s counting as separators
split(s, sep) ==
  LET Nth(seps, n) ==
        IF n = 0 THEN 0
        ELSE IF n > Cardinality(seps) THEN Len(s) + 1
        ELSE CHOOSE j \in seps : Cardinality({k \in seps : k < j}) = n - 1
      Parts(seps) ==
        [n \in 1..(Cardinality(seps) + 1) |->
           Slice(s, Nth(seps, n - 1) + 1, Nth(seps, n) - 1)]
  IN  Parts({j \in 1..Len(s) : Ch(s, j) = sep})

\* length of the run of characters of the class cls that starts at i
ClassRunLen(s, i, cls) ==
  IF i > Len(s) THEN 0
  ELSE Min({j \in i..(Len(s) + 1) : Ch(s, j) \notin cls}) - i

\* length of the run of digits of s that starts at position i
DigitRunLen(s, i) == ClassRunLen(s, i, Digits)

AllDigits(s) == s # "" /\ DigitRunLen(s, 1) = Len(s)

RECURSIVE Pow10(_)
Pow10(n) == IF n = 0 THEN 1 ELSE 10 * Pow10(n - 1)

\* value of a string of decimal digits
RECURSIVE parseInt(_)
parseInt(s) ==
  IF s = "" THEN 0
  ELSE 10 * parseInt(Slice(s, 1, Len(s) - 1)) + DigitVal(Ch(s, Len(s)))

\* decimal digits of n, padded with zeros to the width w
RECURSIVE padStart(_, _)
padStart(n, w) ==
  IF w = 0 THEN "" ELSE padStart(n \div 10, w - 1) \o DigitChar(n % 10)

(***************************************************************************)
(* Numbers                                                                 *)
(***************************************************************************)
\* a decimal numeral is read in units of 1/Scale, a JavaScript number is
\* held in units of 1/Denom
Scale == 10000

Denom == 60 * Scale

\* NaN is held as a value no numeral of the model reaches; every operation
\* on numbers tests for it first, as the comparisons of JavaScript do
NaN == 0 - 2000000000

\* a magnitude above every bound the code compares a number with; numerals
\* too large for the integers of the model are held as Huge
Huge == 1999999999

\* the decimal numeral at the start of s, in units of 1/Scale: optional sign,
\* digits, optional fraction; NaN when no digit is found (parseFloat's
\* prefix rule).  Fraction digits after the fourth are dropped and exponents
\* are not read; no input of the model has either.
parseDecimal(str) ==
  LET Value(s, neg, p, nInt, nFrac) ==
        IF nInt = 0 /\ nFrac = 0 THEN NaN
        ELSE IF nInt > 5 THEN (IF neg THEN 0 - Huge ELSE Huge)
        ELSE (IF neg THEN 0 - 1 ELSE 1)
               * (parseInt(Slice(s, p, p + nInt - 1)) * Scale
                    + parseInt(Slice(s, p + nInt + 1, p + nInt + nFrac))
                        * Pow10(4 - nFrac))
      Fraction(s, neg, p, nInt, n) ==
        Value(s, neg, p, nInt, IF n > 4 THEN 4 ELSE n)
      Integer(s, neg, p, nInt) ==
        Fraction(s, neg, p, nInt,
                 IF Ch(s, p + nInt) = "." THEN DigitRunLen(s, p + nInt + 1)
                 ELSE 0)
      Sign(s, c) ==
        Integer(s, c = "-", IF c \in {"-", "+"} THEN 2 ELSE 1,
                DigitRunLen(s, IF c \in {"-", "+"} THEN 2 ELSE 1))
      Numeral(s) == Sign(s, Ch(s, 1))
  IN  Numeral(trimStart(str))

\* parseFloat, in units of 1/Denom
parseFloat(str) ==
  LET Number(d) ==
        IF d = NaN THEN NaN
        ELSE IF d >= 3000 * Scale THEN Huge
        ELSE IF d <= (0 - 3000) * Scale THEN 0 - Huge
        ELSE d * 60
  IN  Number(parseDecimal(str))

isNaN(x) == x = NaN

\* x || 0 for a number x: NaN, undefined and 0 are falsy
OrZero(x) == IF x = NaN \/ x = 0 - 2000000001 THEN 0 ELSE x

\* the % operator of JavaScript: the result has the sign of the dividend
JsRem(a, b) == IF a >= 0 THEN a % b ELSE 0 - ((0 - a) % b)

(***************************************************************************)
(* Instants and ISO strings.  An instant is <<seconds since the epoch,     *)
(* milliseconds>>; Invalid is the time value of an invalid Date.           *)
(***************************************************************************)
Invalid == <<0, 0 - 1>>

IsLeap(y) == (y % 4 = 0 /\ y % 100 # 0) \/ y % 400 = 0

DaysInMonth(y, m) ==
  IF m = 2 THEN (IF IsLeap(y) THEN 29 ELSE 28)
  ELSE IF m \in {4, 6, 9, 11} THEN 30 ELSE 31

\* days from 1970-01-01 to the civil date y-m-d
DaysFromCivil(y, m, d) ==
  LET Days(era, yoe, doy) ==
        era * 146097 + yoe * 365 + yoe \div 4 - yoe \div 100 + doy - 719468
      InEra(yy, doy) == Days(yy \div 400, yy % 400, doy)
  IN  InEra(IF m <= 2 THEN y - 1 ELSE y,
            (153 * ((m + 9) % 12) + 2) \div 5 + d - 1)

\* the civil date <<y, m, d>> of a day number
CivilFromDays(z0) ==
  LET Date(era, yoe, doy, mp) ==
        <<yoe + era * 400 + (IF mp < 10 THEN 0 ELSE 1),
          IF mp < 10 THEN mp + 3 ELSE mp - 9,
          doy - (153 * mp + 2) \div 5 + 1>>
      InYear(era, yoe, doy) == Date(era, yoe, doy, (5 * doy + 2) \div 153)
      InEra(era, doe, yoe) ==
        InYear(era, yoe, doe - (365 * yoe + yoe \div 4 - yoe \div 100))
      Era(era, doe) ==
        InEra(era, doe,
              (doe - doe \div 1460 + doe \div 36524 - doe \div 146096)
                \div 365)
      Shifted(z) == Era(z \div 146097, z % 146097)
  IN  Shifted(z0 + 719468)

\* a field of exactly w digits
IsField(f, w) == Len(f) = w /\ AllDigits(f)

\* new Date("YYYY-MM-DDTHH:mm:ssZ") from the six fields as text: the ISO
\* form needs digits in every field and every field in range
DateFromFields(year, month, day, hour, minute, second) ==
  LET Instant(y, m, d, hh, mm, ss) ==
        IF m \in 1..12 /\ d \in 1..DaysInMonth(y, m)
             /\ hh <= 23 /\ mm <= 59 /\ ss <= 59
          THEN <<DaysFromCivil(y, m, d) * 86400 + hh * 3600 + mm * 60 + ss,
                 0>>
          ELSE Invalid
  IN  IF IsField(year, 4) /\ IsField(month, 2) /\ IsField(day, 2)
           /\ IsField(hour, 2) /\ IsField(minute, 2) /\ IsField(second, 2)
        THEN Instant(parseInt(year), parseInt(month), parseInt(day),
                     parseInt(hour), parseInt(minute), parseInt(second))
        ELSE Invalid

\* Date.prototype.toISOString of a valid instant
toISOString(t) ==
  LET Text(ymd, sod, ms) ==
        padStart(ymd[1], 4) \o "-" \o padStart(ymd[2], 2) \o "-"
          \o padStart(ymd[3], 2) \o "T" \o padStart(sod \div 3600, 2)
          \o ":" \o padStart((sod % 3600) \div 60, 2) \o ":"
          \o padStart(sod % 60, 2) \o "." \o padStart(ms, 3) \o "Z"
  IN  Text(CivilFromDays(t[1] \div 86400), t[1] % 86400, t[2])

\* Date.prototype.getTime() + ms, for a whole number of seconds
AddSeconds(t, n) == <<t[1] + n, t[2]>>

(***************************************************************************)
(* parser.js                                                               *)
(***************************************************************************)
\* a field the decoder's object literal does not have (undefined)
Undefined == 0 - 2000000001

\* the null a decoder returns to decline
null == [type |-> "null"]

WordRunLen(s, i) == ClassRunLen(s, i, WordChars)

\* the literal lit (given in lower case) stands at position i, letter case
\* ignored (the i flag)
LitAt(s, i, lit) == toLowerCase(Slice(s, i, i + Len(lit) - 1)) = lit

\* isValidCoordinate with < and > in place of <= and >=
isValidCoordinate_strict(lat, lon) ==
  /\ ~isNaN(lat) /\ ~isNaN(lon)
  /\ lat > (0 - 90) * Denom /\ lat < 90 * Denom
  /\ lon > (0 - 180) * Denom /\ lon < 180 * Denom
  /\ (lat # 0 \/ lon # 0)

isValidCoordinate(lat, lon) ==
  /\ ~isNaN(lat) /\ ~isNaN(lon)
  /\ lat >= (0 - 90) * Denom /\ lat <= 90 * Denom
  /\ lon >= (0 - 180) * Denom /\ lon <= 180 * Denom
  /\ (lat # 0 \/ lon # 0)

\* new Date(timeStr) for a string none of the digit formats matched: the
\* ISO form is read; every other string is taken as unparseable
GeneralDate(timeStr) ==
  IF Len(timeStr) = 20 /\ Ch(timeStr, 5) = "-" /\ Ch(timeStr, 8) = "-"
       /\ Ch(timeStr, 11) = "T" /\ Ch(timeStr, 14) = ":"
       /\ Ch(timeStr, 17) = ":" /\ Ch(timeStr, 20) = "Z"
    THEN DateFromFields(substr(timeStr, 0, 4), substr(timeStr, 5, 2),
                        substr(timeStr, 8, 2), substr(timeStr, 11, 2),
                        substr(timeStr, 14, 2), substr(timeStr, 17, 2))
    ELSE Invalid

\* parseTimestamp without the branch of thirteen digits
parseTimestamp_noMillis(timeStr, now) ==
  LET Iso(date) == toISOString(IF date = Invalid THEN now ELSE date)
  IN  Iso(IF timeStr = "" THEN now
          ELSE IF IsField(timeStr, 10) THEN <<parseInt(timeStr), 0>>
          ELSE IF IsField(timeStr, 14)
            THEN DateFromFields(substr(timeStr, 0, 4), substr(timeStr, 4, 2),
                                substr(timeStr, 6, 2), substr(timeStr, 8, 2),
                                substr(timeStr, 10, 2), substr(timeStr, 12, 2))
          ELSE IF IsField(timeStr, 8)
            THEN DateFromFields(substr(timeStr, 0, 4), substr(timeStr, 4, 2),
                                substr(timeStr, 6, 2), "00", "00", "00")
          ELSE GeneralDate(timeStr))

\* timeStr is "" when the caller's value is undefined; now is the clock.
\* toISOString of an invalid Date throws, and the catch leads to the fallback
parseTimestamp(timeStr, now) ==
  LET Iso(date) == toISOString(IF date = Invalid THEN now ELSE date)
  IN  Iso(IF timeStr = "" THEN now
          ELSE IF IsField(timeStr, 10) THEN <<parseInt(timeStr), 0>>
          ELSE IF IsField(timeStr, 13)
            THEN <<parseInt(substr(timeStr, 0, 10)),
                   parseInt(substr(timeStr, 10, 3))>>
          ELSE IF IsField(timeStr, 14)
            THEN DateFromFields(substr(timeStr, 0, 4), substr(timeStr, 4, 2),
                                substr(timeStr, 6, 2), substr(timeStr, 8, 2),
                                substr(timeStr, 10, 2), substr(timeStr, 12, 2))
          ELSE IF IsField(timeStr, 8)
            THEN DateFromFields(substr(timeStr, 0, 4), substr(timeStr, 4, 2),
                                substr(timeStr, 6, 2), "00", "00", "00")
          ELSE GeneralDate(timeStr))

CoordChars == Digits \cup {".", "-"}

SpeedChars == Digits \cup {"."}

\* /ST900,ID:(\d+),Lat:([\d.-]+),Lon:([\d.-]+),Speed:([\d.]+),Time:(\d+)/i
\* tried at position i: the five captures, or <<>> when it does not match.
\* Each step is given the position p and the length n of its capture.
StandardMatchAt(s, i) ==
  LET Time(id, lat, lon, speed, p, n) ==
        IF n >= 1 THEN <<id, lat, lon, speed, Slice(s, p, p + n - 1)>>
        ELSE <<>>
      Speed(id, lat, lon, p, n) ==
        IF n >= 1 /\ LitAt(s, p + n, ",time:")
          THEN Time(id, lat, lon, Slice(s, p, p + n - 1),
                    p + n + 6, DigitRunLen(s, p + n + 6))
          ELSE <<>>
      Lon(id, lat, p, n) ==
        IF n >= 1 /\ LitAt(s, p + n, ",speed:")
          THEN Speed(id, lat, Slice(s, p, p + n - 1),
                     p + n + 7, ClassRunLen(s, p + n + 7, SpeedChars))
          ELSE <<>>
      Lat(id, p, n) ==
        IF n >= 1 /\ LitAt(s, p + n, ",lon:")
          THEN Lon(id, Slice(s, p, p + n - 1),
                   p + n + 5, ClassRunLen(s, p + n + 5, CoordChars))
          ELSE <<>>
      Id(p, n) ==
        IF n >= 1 /\ LitAt(s, p + n, ",lat:")
          THEN Lat(Slice(s, p, p + n - 1),
                   p + n + 5, ClassRunLen(s, p + n + 5, CoordChars))
          ELSE <<>>
  IN  IF LitAt(s, i, "st900,id:") THEN Id(i + 9, DigitRunLen(s, i + 9))
      ELSE <<>>

parseStandardFormat(data, now) ==
  LET Record(match) ==
        [type |-> "location",
         device_id |-> match[1],
         lat |-> parseFloat(match[2]),
         lon |-> parseFloat(match[3]),
         speed |-> parseFloat(match[4]),
         heading |-> Undefined,
         altitude |-> Undefined,
         timestamp |-> parseTimestamp(match[5], now)]
      \* String.prototype.match returns the leftmost match
      Match(starts) ==
        IF starts = {} THEN null
        ELSE Record(StandardMatchAt(data, Min(starts)))
  IN  Match({i \in 1..Len(data) : StandardMatchAt(data, i) # <<>>})

parseCommaDelimited(data, now) ==
  LET Record(deviceId, lat, lon, speed, heading, timestamp) ==
        IF ~isNaN(lat) /\ ~isNaN(lon) /\ isValidCoordinate(lat, lon)
          THEN [type |-> "location",
                device_id |-> deviceId,
                lat |-> lat,
                lon |-> lon,
                speed |-> OrZero(speed),
                heading |-> heading,
                altitude |-> Undefined,
                timestamp |-> timestamp]
          ELSE null
      Fields(parts) ==
        IF Len(parts) >= 6
          THEN Record(parts[1], parseFloat(parts[2]), parseFloat(parts[3]),
                      parseFloat(parts[4]), OrZero(parseFloat(parts[5])),
                      parseTimestamp(parts[6], now))
          ELSE null
  IN  Fields(split(data, ","))

\* the match of /(\w+):([^,]+)/ in a text without commas: the key is the
\* leftmost run of word characters that a colon and one more character
\* follow, the value is the rest of the text; <<key in lower case, value>>,
\* or <<"", "">> when nothing matches
KvMatch(field) ==
  LET At(i, n) ==
        <<toLowerCase(Slice(field, i, i + n - 1)),
          Slice(field, i + n + 1, Len(field))>>
      Leftmost(starts) ==
        IF starts = {} THEN <<"", "">>
        ELSE At(Min(starts), WordRunLen(field, Min(starts)))
      Matches(i, n) ==
        n >= 1 /\ Ch(field, i + n) = ":" /\ i + n < Len(field)
  IN  Leftmost({i \in 1..Len(field) : Matches(i, WordRunLen(field, i))})

\* the loop over /(\w+):([^,]+)/g: no match spans a comma and a value runs
\* to the next comma, so every comma-separated field holds at most one match;
\* pairs maps each lower-cased key to the value of its last match
KvPairs(s) ==
  LET Pairs(matches) ==
        [key \in {matches[n][1] : n \in DOMAIN matches} \ {""} |->
           matches[Max({n \in DOMAIN matches : matches[n][1] = key})][2]]
      Fields(fields) == Pairs([n \in DOMAIN fields |-> KvMatch(fields[n])])
  IN  Fields(split(s, ","))

\* pairs.key, "" standing for undefined
Prop(pairs, key) == IF key \in DOMAIN pairs THEN pairs[key] ELSE ""

\* a || b on strings
OrStr(a, b) == IF a # "" THEN a ELSE b

parseAlternativeFormat(data, now) ==
  LET Record(pairs, lat, lon) ==
        IF isValidCoordinate(lat, lon)
          THEN [type |-> "location",
                device_id |-> Prop(pairs, "imei"),
                lat |-> lat,
                lon |-> lon,
                speed |-> OrZero(parseFloat(Prop(pairs, "speed"))),
                heading |-> OrZero(parseFloat(
                   OrStr(Prop(pairs, "heading"), Prop(pairs, "course")))),
                altitude |-> OrZero(parseFloat(
                   OrStr(Prop(pairs, "alt"), Prop(pairs, "altitude")))),
                timestamp |-> parseTimestamp(Prop(pairs, "time"), now)]
          ELSE null
      Fields(pairs) ==
        IF /\ Prop(pairs, "imei") # "" /\ Prop(pairs, "lat") # ""
           /\ OrStr(Prop(pairs, "lng"), Prop(pairs, "lon")) # ""
          THEN Record(pairs, parseFloat(Prop(pairs, "lat")),
                      parseFloat(OrStr(Prop(pairs, "lng"), Prop(pairs, "lon"))))
          ELSE null
  IN  Fields(KvPairs(data))

\* the regional offset parseHQFormat adds to the assembled instant, in hours
SyriaOffsetHours == 3

\* DegMinToDecimal that clamps the result to 180 degrees
DegMinToDecimal_clamped(degMin, dir, neg) ==
  LET Signed(val) == IF dir = neg THEN 0 - val ELSE val
      Clamp(val) == IF val > 180 * Denom THEN 180 * Denom ELSE val
  IN  IF isNaN(degMin) THEN NaN
      ELSE Signed(Clamp((degMin \div (100 * Scale)) * Denom
                          + JsRem(degMin, 100 * Scale)))

\* DDMM.MMMM (in units of 1/Scale) to decimal degrees (in units of 1/Denom):
\* Math.floor(v / 100) + (v % 100) / 60, negated for the direction neg
DegMinToDecimal(degMin, dir, neg) ==
  LET Signed(val) == IF dir = neg THEN 0 - val ELSE val
  IN  IF isNaN(degMin) THEN NaN
      ELSE Signed((degMin \div (100 * Scale)) * Denom
                    + JsRem(degMin, 100 * Scale))

\* speed * 1.852
knotsToKmh(v) == (v \div 1000) * 1852 + ((v % 1000) * 1852) \div 1000

\* parseHQFormat without the test of the status field
parseHQFormat_anyFlag(data, now) ==
  LET Record(deviceId, lat, lon, speed, heading, utcDate) ==
        \* toISOString of an invalid Date throws; the catch returns null
        IF utcDate = Invalid THEN null
        ELSE IF isValidCoordinate(lat, lon)
          THEN [type |-> "location",
                device_id |-> deviceId,
                lat |-> lat,
                lon |-> lon,
                speed |-> knotsToKmh(speed),
                heading |-> heading,
                altitude |-> Undefined,
                timestamp |-> toISOString(
                   AddSeconds(utcDate, SyriaOffsetHours * 60 * 60))]
          ELSE null
      Instant(dateStr, timeStr) ==
        DateFromFields("20" \o substr(dateStr, 4, 2), substr(dateStr, 2, 2),
                       substr(dateStr, 0, 2), substr(timeStr, 0, 2),
                       substr(timeStr, 2, 2), substr(timeStr, 4, 2))
      Fields(parts) ==
        IF Len(parts) >= 12
          THEN IF FALSE THEN null
               ELSE Record(parts[1],
                      DegMinToDecimal(parseDecimal(parts[5]), parts[6], "S"),
                      DegMinToDecimal(parseDecimal(parts[7]), parts[8], "W"),
                      OrZero(parseFloat(parts[9])),
                      OrZero(parseFloat(parts[10])),
                      Instant(parts[11], parts[3]))
          ELSE null
  IN  IF ~startsWith(data, "*HQ,") \/ ~endsWith(data, "#") THEN null
      ELSE Fields(split(Slice(data, 5, Len(data) - 1), ","))

parseHQFormat(data, now) ==
  LET Record(deviceId, lat, lon, speed, heading, utcDate) ==
        \* toISOString of an invalid Date throws; the catch returns null
        IF utcDate = Invalid THEN null
        ELSE IF isValidCoordinate(lat, lon)
          THEN [type |-> "location",
                device_id |-> deviceId,
                lat |-> lat,
                lon |-> lon,
                speed |-> knotsToKmh(speed),
                heading |-> heading,
                altitude |-> Undefined,
                timestamp |-> toISOString(
                   AddSeconds(utcDate, SyriaOffsetHours * 60 * 60))]
          ELSE null
      Instant(dateStr, timeStr) ==
        DateFromFields("20" \o substr(dateStr, 4, 2), substr(dateStr, 2, 2),
                       substr(dateStr, 0, 2), substr(timeStr, 0, 2),
                       substr(timeStr, 2, 2), substr(timeStr, 4, 2))
      Fields(parts) ==
        IF Len(parts) >= 12
          THEN IF parts[4] # "A" THEN null
               ELSE Record(parts[1],
                      DegMinToDecimal(parseDecimal(parts[5]), parts[6], "S"),
                      DegMinToDecimal(parseDecimal(parts[7]), parts[8], "W"),
                      OrZero(parseFloat(parts[9])),
                      OrZero(parseFloat(parts[10])),
                      Instant(parts[11], parts[3]))
          ELSE null
  IN  IF ~startsWith(data, "*HQ,") \/ ~endsWith(data, "#") THEN null
      ELSE Fields(split(Slice(data, 5, Len(data) - 1), ","))

\* a || b on decoder results
OrElse(a, b) == IF a # null THEN a ELSE b

\* parse with the positional decoder tried before the tagged one
parse_positionalFirst(rawData, now) ==
  LET Result(data, parsed) ==
        IF parsed # null
          THEN [type |-> parsed.type,
                device_id |-> parsed.device_id,
                lat |-> parsed.lat,
                lon |-> parsed.lon,
                speed |-> parsed.speed,
                heading |-> parsed.heading,
                altitude |-> parsed.altitude,
                timestamp |-> parsed.timestamp,
                raw_data |-> data,
                parsed_at |-> toISOString(now)]
          ELSE null
      Decode(data) ==
        Result(data, OrElse(parseCommaDelimited(data, now),
                       OrElse(parseStandardFormat(data, now),
                         OrElse(parseAlternativeFormat(data, now),
                                parseHQFormat(data, now)))))
  IN  IF rawData = "" THEN null ELSE Decode(trim(rawData))

\* parse that gives up on the line when the positional decoder finds six
\* fields whose coordinates it cannot accept
parse_abortOnFailure(rawData, now) ==
  LET Result(data, parsed) ==
        IF parsed # null
          THEN [type |-> parsed.type,
                device_id |-> parsed.device_id,
                lat |-> parsed.lat,
                lon |-> parsed.lon,
                speed |-> parsed.speed,
                heading |-> parsed.heading,
                altitude |-> parsed.altitude,
                timestamp |-> parsed.timestamp,
                raw_data |-> data,
                parsed_at |-> toISOString(now)]
          ELSE null
      Positional(data, tagged, parsed) ==
        IF tagged # null THEN tagged
        ELSE IF parsed # null THEN parsed
        ELSE IF Len(split(data, ",")) >= 6 THEN null
        ELSE OrElse(parseAlternativeFormat(data, now),
                    parseHQFormat(data, now))
      Decode(data) ==
        Result(data, Positional(data, parseStandardFormat(data, now),
                                parseCommaDelimited(data, now)))
  IN  IF rawData = "" THEN null ELSE Decode(trim(rawData))

\* parse: the first decoder's record that is not null, with raw_data and
\* parsed_at added
parse(rawData, now) ==
  LET Result(data, parsed) ==
        IF parsed # null
          THEN [type |-> parsed.type,
                device_id |-> parsed.device_id,
                lat |-> parsed.lat,
                lon |-> parsed.lon,
                speed |-> parsed.speed,
                heading |-> parsed.heading,
                altitude |-> parsed.altitude,
                timestamp |-> parsed.timestamp,
                raw_data |-> data,
                parsed_at |-> toISOString(now)]
          ELSE null
      Decode(data) ==
        Result(data, OrElse(parseStandardFormat(data, now),
                       OrElse(parseCommaDelimited(data, now),
                         OrElse(parseAlternativeFormat(data, now),
                                parseHQFormat(data, now)))))
  IN  IF rawData = "" THEN null ELSE Decode(trim(rawData))

isHeartbeat(data) ==
  LET Test(d, n) ==
        \/ d \in {"heartbeat", "ping", "alive"}
        \/ n >= 1 /\ Slice(d, n + 1, Len(d)) = ",heartbeat"
        \/ startsWith(d, "st900,heartbeat")
      Lower(d) == Test(d, DigitRunLen(d, 1))
  IN  Lower(toLowerCase(trim(data)))

isLogin(data) ==
  LET ImeiAt(d, i, n) == n >= 1 /\ LitAt(d, i + 5 + n, ",login")
      Test(d, n) ==
        \/ d \in {"login", "connect", "hello"}
        \/ n >= 1 /\ Slice(d, n + 1, Len(d)) = ",login"
        \/ startsWith(d, "st900,login")
        \/ \E i \in 1..Len(d) :
             LitAt(d, i, "imei:") /\ ImeiAt(d, i, DigitRunLen(d, i + 5))
      Lower(d) == Test(d, DigitRunLen(d, 1))
  IN  Lower(toLowerCase(trim(data)))

(***************************************************************************)
(* The environment: connections, transport reads and the clock             *)
(***************************************************************************)
\* remoteAddress:remotePort of the connections that can be made
ClientIds == {"10.0.0.1:5001", "10.0.0.2:5002"}

\* the clock advances in steps of TickSeconds from Epoch0
Epoch0 == 1757452686

TickSeconds == 30 * 60

MaxTick == 1

\* most transport reads handled in one run
MaxReads == 2

\* the transport reads a tracker can cause
Chunks ==
  { "heartbeat\n",
    "8160528336,login\n",
    "3072866250,login\n",
    "login\n",
    "imei:8160528336,login,lat:35.1234,lng:36.5678\n",
    "ST900,ID:8160528336,Lat:35.1234,Lon:36.5678,Speed:40,Time:20250909\n",
    "ST900,ID:8160528336,Lat:95.0,Lon:36.5678,Speed:40,Time:20250909\n",
    "3072866250,35.1234,36.5678,40,0,20250909120000\n",
    ",35.1234,36.5678,40,0,20250909120000\n",
    "*HQ,3072866250,V1,211806,A,3635.1452,N,03702.2586,E,000.00,000,090925,7FFFFBFF,417,02,202,23002#\n",
    "garbage\n",
    "heartbeat\nheartbeat\n",
    "heart",
    "beat\n" }

\* single lines a tracker can send, one per transport read: the control
\* tokens with and without a digit prefix, tagged lines with and without the
\* Speed and Time keys, lines of each location format and lines that more
\* than one decoder could take, and delimited records by validity flag
Lines ==
  { "heartbeat\n", "ping\n", "alive\n",
    "8160528336,heartbeat\n", "8160528336,ping\n", "8160528336,alive\n",
    "ST900,heartbeat\n",
    "login\n", "connect\n", "hello\n",
    "8160528336,login\n", "8160528336,connect\n", "8160528336,hello\n",
    "imei:8160528336,login\n", "77,imei:8160528336,login,3072866250\n",
    "ST900,ID:8160528336,Lat:35.1234,Lon:36.5678,Speed:40,Time:20250909\n",
    "ST900,ID:8160528336,Lat:35.1234,Lon:36.5678\n",
    "ST900,ID:8160528336,Lat:35.1234,Lon:36.5678,Speed:40\n",
    "ST900,ID:8160528336,Lat:35.1234,Lon:36.5678,Time:20250909\n",
    "3072866250,35.1234,36.5678,40,0,20250909120000\n",
    "imei:8160528336,lat:35.1234,lng:36.5678,speed:40,time:1609459200\n",
    "*HQ,3072866250,V1,211806,A,3635.1452,N,03702.2586,E,000.00,000,090925,7FFFFBFF,417,02,202,23002#\n",
    "7,35.1,36.5,40,0,ST900,ID:8160528336,Lat:35.1234,Lon:36.5678,Speed:40,Time:20250909\n",
    "imei:1,35.1,36.5,40,0,x,imei:8160528336,lat:35.1234,lng:36.5678\n",
    "*HQ,imei:8160528336,lat:35.1234,211806,A,3635.1452,N,03702.2586,E,000.00,000,090925,lng:36.5678#\n",
    "*HQ,3072866250,V1,211806,V,3635.1452,N,03702.2586,E,000.00,000,090925,7FFFFBFF,417,02,202,23002#\n",
    "*HQ,3072866250,V1,211806,,3635.1452,N,03702.2586,E,000.00,000,090925,7FFFFBFF,417,02,202,23002#\n",
    "*HQ,3072866250,V1,211806,a,3635.1452,N,03702.2586,E,000.00,000,090925,7FFFFBFF,417,02,202,23002#\n",
    "*HQ,45,90,211806,V,3635.1452,N,03702.2586,E,000.00,000,090925#\n",
    "3072866250,35.1234,36.5678,-5,400,20250909120000\n",
    "imei:1,95,36.5,40,0,x,imei:8160528336,lat:35.1234,lng:36.5678\n",
    "*HQ,3072866250,V1,211806,A,3635.1452,N,03702.2586,E,000.00,000,999999,7FFFFBFF#\n",
    "*HQ,imei:8160528336,lat:35.1234,211806,V,3635.1452,N,03702.2586,E,000.00,000,090925,lng:36.5678#\n" }

\* every transport read of the model
\* DDMM.MMMM and DDDMM.MMMM numerals of delimited records: the text, its
\* degrees D and its minutes M in units of 1/Scale
LatNumerals ==
  { [text |-> "3635.1452", D |-> 36, M |-> 351452],
    [text |-> "0000.0000", D |-> 0, M |-> 0],
    [text |-> "0059.9999", D |-> 0, M |-> 599999],
    [text |-> "8959.9999", D |-> 89, M |-> 599999],
    [text |-> "9000.0000", D |-> 90, M |-> 0],
    [text |-> "9000.0001", D |-> 90, M |-> 1],
    [text |-> "8999.0000", D |-> 89, M |-> 990000],
    [text |-> "9130.0000", D |-> 91, M |-> 300000] }

LonNumerals ==
  { [text |-> "03702.2586", D |-> 37, M |-> 22586],
    [text |-> "00000.0000", D |-> 0, M |-> 0],
    [text |-> "17959.9999", D |-> 179, M |-> 599999],
    [text |-> "18000.0000", D |-> 180, M |-> 0],
    [text |-> "18000.0001", D |-> 180, M |-> 1],
    [text |-> "17999.0000", D |-> 179, M |-> 990000],
    [text |-> "18030.0000", D |-> 180, M |-> 300000] }

\* latitude, its direction, longitude, its direction: every latitude numeral
\* with every direction letter beside one longitude, every longitude numeral
\* with every direction letter beside one latitude, and both zero
HQCases ==
  LET Lat0 == [text |-> "3635.1452", D |-> 36, M |-> 351452]
      Lon0 == [text |-> "03702.2586", D |-> 37, M |-> 22586]
  IN  {<<la, d, Lon0, "E">> : la \in LatNumerals, d \in {"N", "S", "W"}}
        \cup {<<Lat0, "N", lo, d>> : lo \in LonNumerals, d \in {"E", "W", "S"}}
        \cup {<<[text |-> "0000.0000", D |-> 0, M |-> 0], "N",
                [text |-> "00000.0000", D |-> 0, M |-> 0], "E">>}

\* the delimited record of a tracker at the position c
HQLineOf(c) ==
  "*HQ,3072866250,V1,211806,A," \o c[1].text \o "," \o c[2] \o ","
    \o c[3].text \o "," \o c[4] \o ",000.00,000,090925,7FFFFBFF#\n"

HQLines == {HQLineOf(c) : c \in HQCases}

\* ten-digit Unix seconds, each with the instant it names
UnixSeconds ==
  { <<"0000000000", "1970-01-01T00:00:00.000Z">>,
    <<"0000000001", "1970-01-01T00:00:01.000Z">>,
    <<"0999999999", "2001-09-09T01:46:39.000Z">>,
    <<"1609459200", "2021-01-01T00:00:00.000Z">>,
    <<"1700000000", "2023-11-14T22:13:20.000Z">>,
    <<"2147483647", "2038-01-19T03:14:07.000Z">> }

\* the positional line of a tracker with the time field timeStr
TimeLineOf(timeStr) == "3072866250,35.1234,36.5678,40,0," \o timeStr

\* every instant once as seconds and once as milliseconds
TimeLines ==
  {TimeLineOf(u[1]) \o "\n" : u \in UnixSeconds}
    \cup {TimeLineOf(u[1] \o "000") \o "\n" : u \in UnixSeconds}

\* latitude and longitude fields of positional lines, as text and in units
\* of 1/Scale; numeric is FALSE where parseFloat finds no number
PairCases ==
  { [lat |-> "90", lon |-> "180", latV |-> 900000, lonV |-> 1800000, numeric |-> TRUE],
    [lat |-> "-90", lon |-> "-180", latV |-> 0 - 900000, lonV |-> 0 - 1800000, numeric |-> TRUE],
    [lat |-> "0", lon |-> "0", latV |-> 0, lonV |-> 0, numeric |-> TRUE],
    [lat |-> "-0", lon |-> "0.0", latV |-> 0, lonV |-> 0, numeric |-> TRUE],
    [lat |-> "90.0001", lon |-> "0", latV |-> 900001, lonV |-> 0, numeric |-> TRUE],
    [lat |-> "-90.0001", lon |-> "36.5678", latV |-> 0 - 900001, lonV |-> 365678, numeric |-> TRUE],
    [lat |-> "35.1234", lon |-> "180.0001", latV |-> 351234, lonV |-> 1800001, numeric |-> TRUE],
    [lat |-> "35.1234", lon |-> "-180.0001", latV |-> 351234, lonV |-> 0 - 1800001, numeric |-> TRUE],
    [lat |-> "0", lon |-> "36.5678", latV |-> 0, lonV |-> 365678, numeric |-> TRUE],
    [lat |-> "35.1234", lon |-> "0", latV |-> 351234, lonV |-> 0, numeric |-> TRUE],
    [lat |-> "0.0001", lon |-> "0", latV |-> 1, lonV |-> 0, numeric |-> TRUE],
    [lat |-> "35.1234", lon |-> "36.5678", latV |-> 351234, lonV |-> 365678, numeric |-> TRUE],
    [lat |-> "91", lon |-> "181", latV |-> 910000, lonV |-> 1810000, numeric |-> TRUE],
    [lat |-> "north", lon |-> "36.5678", latV |-> 0, lonV |-> 365678, numeric |-> FALSE],
    [lat |-> "35.1234", lon |-> "", latV |-> 351234, lonV |-> 0, numeric |-> FALSE] }

\* the positional line of a tracker at the position c
PairLineOf(c) ==
  "3072866250," \o c.lat \o "," \o c.lon \o ",40,0,20250909120000\n"

PairLines == {PairLineOf(c) : c \in PairCases}

Reads == Chunks \cup Lines \cup HQLines \cup TimeLines \cup PairLines

\* the connection the single lines are sent on
LineClient == "10.0.0.1:5001"

(***************************************************************************)
(* database.js                                                             *)
(***************************************************************************)
\* the row insertGpsLog binds to the INSERT statement; id is the rowid
GpsLogRow(id, data, nowIso) ==
  [id |-> id,
   device_id |-> data.device_id,
   lat |-> data.lat,
   lon |-> data.lon,
   speed |-> OrZero(data.speed),
   altitude |-> OrZero(data.altitude),
   heading |-> OrZero(data.heading),
   timestamp |-> IF data.timestamp # "" THEN data.timestamp ELSE nowIso,
   raw_data |-> data.raw_data]

\* lat and lon are REAL NOT NULL and SQLite stores NaN as NULL: binding NaN
\* makes stmt.run raise a constraint error
ViolatesNotNull(data) == isNaN(data.lat) \/ isNaN(data.lon)

\* INSERT OR REPLACE INTO devices (device_id, last_seen): the row of deviceId
\* is replaced, the columns not named take their defaults
updateDeviceLastSeen(devs, deviceId, nowIso) ==
  [d \in DOMAIN devs \cup {deviceId} |->
     IF d = deviceId
       THEN [name |-> "NULL", phone_number |-> "NULL",
             last_seen |-> nowIso, is_active |-> 1,
             created_at |-> nowIso]
       ELSE devs[d]]

(***************************************************************************)
(* server.js                                                               *)
(***************************************************************************)
\* deviceId: null
Null == "<null>"

\* socket.setTimeout(30 * 60 * 1000), in seconds
IdleTimeoutSeconds == 30 * 60

VARIABLES
  tick,       \* the clock: number of TickSeconds steps since Epoch0
  sock,       \* per client id, the state of its socket: "none", "open" or
              \* "ended" (socket.end() was called, the peer has not closed)
  lastIo,     \* per client id, the tick of the socket's last activity
  clients,    \* this.clients: client id -> session, for the live sessions
  out,        \* per client id, the acknowledgments delivered to the peer
  nlRx,       \* per client id, the number of newline characters received
  gps_logs,   \* the rows of the gps_logs table, in rowid order
  devices,    \* the devices table: device_id -> row
  last,       \* what the last handleData call did
  reads,      \* the number of transport reads handled so far
  device_commands,  \* the rows of the device_commands table, in id order
  sending,    \* the ids of the commands whose sendCommand call waits for
              \* the carrier to take the SMS
  proc        \* the process: isShuttingDown of the system, the listener and
              \* the database handle of the TCP server and of the HTTP API
              \* server, and whether process.exit was called

vars ==
  <<tick, sock, lastIo, clients, out, nlRx, gps_logs, devices, last, reads,
    device_commands, sending, proc>>

\* the state of the SMS service and of the process, which no handler of a
\* tracker connection touches
svcvars == <<device_commands, sending, proc>>

\* last before any call: cid the client id, data the transport read, raw the
\* trimmed text, kind the handler chosen, idBefore the session's deviceId
\* when the call started, parsed what parse returned, insertedId the
\* device_id of the record passed to insertGpsLog, writes the socket.write
\* calls in order
NoCall ==
  [cid |-> "", data |-> "", raw |-> "", kind |-> "none", idBefore |-> Null,
   parsed |-> null, parseCalled |-> FALSE, insertCalled |-> FALSE,
   insertedId |-> "", insertThrew |-> FALSE, writes |-> <<>>]

Init ==
  /\ tick = 0
  /\ sock = [c \in ClientIds |-> "none"]
  /\ lastIo = [c \in ClientIds |-> 0]
  /\ clients = [c \in {} |-> 0]
  /\ out = [c \in ClientIds |-> <<>>]
  /\ nlRx = [c \in ClientIds |-> 0]
  /\ gps_logs = <<>>
  /\ devices = [d \in {} |-> 0]
  /\ last = NoCall
  /\ reads = 0
  /\ device_commands = <<>>
  /\ sending = {}
  /\ proc = [isShuttingDown |-> FALSE,
             tcpServer |-> "listening", tcpDb |-> "open",
             apiServer |-> "listening", apiDb |-> "open",
             exited |-> FALSE]

\* the idle timer of the socket of c has run out
Expired(c) == (tick - lastIo[c]) * TickSeconds >= IdleTimeoutSeconds

CountNewlines(s) == Cardinality({i \in 1..Len(s) : Ch(s, i) = "\n"})

\* the clock value of tick t, and its ISO string
TickNow(t) == <<Epoch0 + t * TickSeconds, 0>>

IsoOf == [t \in 0..MaxTick |-> toISOString(TickNow(t))]

\* handleConnection without the greeting
handleConnection_silent(c) ==
  /\ UNCHANGED svcvars
  /\ sock[c] = "none"
  /\ sock' = [sock EXCEPT ![c] = "open"]
  /\ lastIo' = [lastIo EXCEPT ![c] = tick]
  /\ clients' = [k \in DOMAIN clients \cup {c} |->
                   IF k = c
                     THEN [connectedAt |-> IsoOf[tick],
                           lastActivity |-> IsoOf[tick],
                           deviceId |-> Null,
                           packetsReceived |-> 0]
                     ELSE clients[k]]
  /\ nlRx' = [nlRx EXCEPT ![c] = 0]
  /\ UNCHANGED <<tick, out, gps_logs, devices, last, reads>>

\* handleConnection: the session is stored and OK is written
handleConnection(c) ==
  /\ UNCHANGED svcvars
  /\ sock[c] = "none"
  /\ sock' = [sock EXCEPT ![c] = "open"]
  /\ lastIo' = [lastIo EXCEPT ![c] = tick]
  /\ clients' = [k \in DOMAIN clients \cup {c} |->
                   IF k = c
                     THEN [connectedAt |-> IsoOf[tick],
                           lastActivity |-> IsoOf[tick],
                           deviceId |-> Null,
                           packetsReceived |-> 0]
                     ELSE clients[k]]
  /\ out' = [out EXCEPT ![c] = <<"OK">>]
  /\ nlRx' = [nlRx EXCEPT ![c] = 0]
  /\ UNCHANGED <<tick, gps_logs, devices, last, reads>>

\* Dispatch with the decoders tried before the login patterns
Dispatch_parseFirst(rawData) ==
  IF isHeartbeat(rawData) THEN "heartbeat"
  ELSE IF parse(rawData, <<Epoch0, 0>>) # null THEN "gps"
  ELSE IF isLogin(rawData) THEN "login"
  ELSE "gps"

\* Dispatch with a heartbeat that starts with a device number taken as a login
Dispatch_prefixLogin(rawData) ==
  IF isHeartbeat(rawData) /\ DigitRunLen(rawData, 1) < 10 THEN "heartbeat"
  ELSE IF isHeartbeat(rawData) \/ isLogin(rawData) THEN "login"
  ELSE "gps"

\* which handler handleData hands rawData to
Dispatch(rawData) ==
  IF isHeartbeat(rawData) THEN "heartbeat"
  ELSE IF isLogin(rawData) THEN "login"
  ELSE "gps"

\* rawData.match(/\d{10,}/): the first run of ten or more digits, "" if none
FirstLongDigitRun(s) ==
  LET Match(starts) ==
        IF starts = {} THEN ""
        ELSE Slice(s, Min(starts), Min(starts) + DigitRunLen(s, Min(starts)) - 1)
  IN  Match({i \in 1..Len(s) : DigitRunLen(s, i) >= 10})

\* LoginDeviceId with /\d+/ in place of /\d{10,}/
LoginDeviceId_shortRun(deviceId, rawData) ==
  LET Match(starts) ==
        IF starts = {} THEN deviceId
        ELSE Slice(rawData, Min(starts),
                   Min(starts) + DigitRunLen(rawData, Min(starts)) - 1)
  IN  Match({i \in 1..Len(rawData) : DigitRunLen(rawData, i) >= 1})

\* LoginDeviceId that clears the deviceId when the frame carries no number
LoginDeviceId_reset(deviceId, rawData) ==
  LET deviceIdMatch == FirstLongDigitRun(rawData)
  IN  IF deviceIdMatch # "" THEN deviceIdMatch ELSE Null

\* the deviceId of the session after handleLogin
LoginDeviceId(deviceId, rawData) ==
  LET deviceIdMatch == FirstLongDigitRun(rawData)
  IN  IF deviceIdMatch # "" THEN deviceIdMatch ELSE deviceId

\* GpsDeviceId with the test of client.deviceId inverted
GpsDeviceId_inverted(deviceId, parsedData) ==
  IF deviceId # Null /\ parsedData.device_id # ""
    THEN parsedData.device_id
    ELSE deviceId

\* the deviceId of the session after handleGPSData
GpsDeviceId(deviceId, parsedData) ==
  IF deviceId = Null /\ parsedData.device_id # ""
    THEN parsedData.device_id
    ELSE deviceId

\* the record handleGPSData passes to insertGpsLog
RecordToInsert(deviceId, parsedData) == parsedData

\* Ack with the login reply of a heartbeat
Ack_loginOk(kind, parsedData, threw) ==
  IF kind \in {"heartbeat", "login"} THEN "OK"
  ELSE IF parsedData = null THEN "ERROR"
  ELSE IF threw THEN "ERROR"
  ELSE "OK"

\* Ack with the storage error swallowed
Ack_swallow(kind, parsedData, threw) ==
  IF kind = "heartbeat" THEN "OK"
  ELSE IF kind = "login" THEN "LOAD"
  ELSE IF parsedData = null THEN "ERROR"
  ELSE "OK"

\* what handleHeartbeat, handleLogin, and the two outcomes of handleGPSData
\* and the unparsed branch of handleData write
Ack(kind, parsedData, threw) ==
  IF kind = "heartbeat" THEN "OK"
  ELSE IF kind = "login" THEN "LOAD"
  ELSE IF parsedData = null THEN "ERROR"
  ELSE IF threw THEN "ERROR"
  ELSE "OK"

\* the results of the pure steps of handleData, worked out once for every
\* transport read and clock value of the model
RawOf == [data \in Reads |-> trim(data)]

KindOf == [data \in Reads |-> Dispatch(trim(data))]

ParsedOf ==
  [data \in Reads |-> [t \in 0..MaxTick |-> parse(trim(data), TickNow(t))]]

NewlinesOf == [data \in Reads |-> CountNewlines(data)]

\* handleData for the transport read data on the socket of c; fail says
\* whether the storage layer raises on this insert
handleData(c, data, fail) ==
  LET \* the effects of the call: ack is written, toInsert was handed to
      \* insertGpsLog when parsedData is a record, threw says that it raised
      Effects(client, rawData, kind, parsedData, deviceId, toInsert, threw, ack) ==
        /\ parsedData = null => ~fail
        /\ gps_logs' = IF parsedData # null /\ ~threw
                         THEN Append(gps_logs,
                                GpsLogRow(Len(gps_logs) + 1, toInsert, IsoOf[tick]))
                         ELSE gps_logs
        /\ devices' = IF parsedData # null /\ ~threw
                        THEN updateDeviceLastSeen(devices,
                               toInsert.device_id, IsoOf[tick])
                        ELSE devices
        /\ last' = [cid |-> c, data |-> data, raw |-> rawData,
                    kind |-> kind,
                    idBefore |-> client.deviceId,
                    parsed |-> parsedData,
                    parseCalled |-> (kind = "gps"),
                    insertCalled |-> (parsedData # null),
                    insertedId |-> IF parsedData # null
                                     THEN toInsert.device_id ELSE "",
                    insertThrew |-> threw,
                    writes |-> <<ack>>]
        /\ IF sock[c] = "open"
             THEN /\ out' = [out EXCEPT ![c] = Append(@, ack)]
                  /\ clients' = [clients EXCEPT ![c] =
                       [connectedAt |-> client.connectedAt,
                        lastActivity |-> IsoOf[tick],
                        deviceId |-> deviceId,
                        packetsReceived |-> client.packetsReceived + 1]]
                  /\ UNCHANGED sock
             \* a write after socket.end() is not sent: the socket
             \* emits 'error' and is destroyed
             ELSE /\ clients' = [k \in DOMAIN clients \ {c} |-> clients[k]]
                  /\ sock' = [sock EXCEPT ![c] = "none"]
                  /\ UNCHANGED out
      Stored(client, rawData, kind, parsedData, deviceId, toInsert, threw) ==
        Effects(client, rawData, kind, parsedData, deviceId, toInsert, threw,
                Ack(kind, parsedData, threw))
      Inserted(client, rawData, kind, parsedData, toInsert) ==
        Stored(client, rawData, kind, parsedData,
               IF kind = "login" THEN LoginDeviceId(client.deviceId, rawData)
               ELSE IF parsedData # null
                 THEN GpsDeviceId(client.deviceId, parsedData)
               ELSE client.deviceId,
               toInsert,
               parsedData # null /\ (fail \/ ViolatesNotNull(toInsert)))
      Parsed(client, rawData, kind, parsedData) ==
        Inserted(client, rawData, kind, parsedData,
                RecordToInsert(client.deviceId, parsedData))
      Dispatched(client, rawData, kind) ==
        Parsed(client, rawData, kind,
               IF kind = "gps" THEN ParsedOf[data][tick] ELSE null)
  IN  /\ sock[c] \in {"open", "ended"}
      /\ sock[c] = "open" => ~Expired(c)
      /\ reads < MaxReads
      /\ reads' = reads + 1
      /\ nlRx' = [nlRx EXCEPT ![c] = @ + NewlinesOf[data]]
      /\ lastIo' = [lastIo EXCEPT ![c] = tick]
      /\ IF c \notin DOMAIN clients
           THEN UNCHANGED <<sock, clients, out, gps_logs, devices, last>>
           ELSE Dispatched(clients[c], RawOf[data], KindOf[data])
      /\ UNCHANGED tick
      /\ UNCHANGED svcvars

\* socket.on('timeout'): socket.end()
OnTimeout(c) ==
  /\ UNCHANGED svcvars
  /\ sock[c] = "open"
  /\ Expired(c)
  /\ sock' = [sock EXCEPT ![c] = "ended"]
  /\ UNCHANGED <<tick, lastIo, clients, out, nlRx, gps_logs, devices, last, reads>>

\* socket.on('end') without the clients.delete
OnEnd_keep(c) ==
  /\ UNCHANGED svcvars
  /\ sock[c] \in {"open", "ended"}
  /\ sock[c] = "open" => ~Expired(c)
  /\ sock' = [sock EXCEPT ![c] = "none"]
  /\ UNCHANGED <<tick, lastIo, clients, out, nlRx, gps_logs, devices, last, reads>>

\* socket.on('end'): the peer closed its side
OnEnd(c) ==
  /\ UNCHANGED svcvars
  /\ sock[c] \in {"open", "ended"}
  /\ sock[c] = "open" => ~Expired(c)
  /\ clients' = [k \in DOMAIN clients \ {c} |-> clients[k]]
  /\ sock' = [sock EXCEPT ![c] = "none"]
  /\ UNCHANGED <<tick, lastIo, out, nlRx, gps_logs, devices, last, reads>>

\* socket.on('error') that drops every session of the table
OnError_all(c) ==
  /\ UNCHANGED svcvars
  /\ sock[c] \in {"open", "ended"}
  /\ sock[c] = "open" => ~Expired(c)
  /\ clients' = [k \in {} |-> clients[k]]
  /\ sock' = [sock EXCEPT ![c] = "none"]
  /\ UNCHANGED <<tick, lastIo, out, nlRx, gps_logs, devices, last, reads>>

\* socket.on('error')
OnError(c) ==
  /\ UNCHANGED svcvars
  /\ sock[c] \in {"open", "ended"}
  /\ sock[c] = "open" => ~Expired(c)
  /\ clients' = [k \in DOMAIN clients \ {c} |-> clients[k]]
  /\ sock' = [sock EXCEPT ![c] = "none"]
  /\ UNCHANGED <<tick, lastIo, out, nlRx, gps_logs, devices, last, reads>>

\* time passes; a timer that has run out fires before time passes again
Tick ==
  /\ UNCHANGED svcvars
  /\ tick < MaxTick
  /\ \A c \in ClientIds : sock[c] = "open" => ~Expired(c)
  /\ tick' = tick + 1
  /\ UNCHANGED <<sock, lastIo, clients, out, nlRx, gps_logs, devices, last, reads>>

Next ==
  \/ \E c \in ClientIds : handleConnection(c)
  \/ \E c \in ClientIds, data \in Chunks, fail \in BOOLEAN :
       handleData(c, data, fail)
  \/ \E c \in ClientIds : OnTimeout(c)
  \/ \E c \in ClientIds : OnEnd(c)
  \/ \E c \in ClientIds : OnError(c)
  \/ Tick

Spec == Init /\ [][Next]_vars
\* the timer and the handlers of the server run when they are due; nothing
\* makes the peer close its side or the transport fail
FairSpec == Spec /\ \A c \in ClientIds : WF_vars(OnTimeout(c))

(***************************************************************************)
(* sms-service.js and the devices and device_commands tables of            *)
(* database.js                                                             *)
(***************************************************************************)
\* the devices the SMS service is asked about
DeviceIds == {"3072866250", "8160528336"}

\* phone numbers as the API receives them
Phones == {"+963944123456", "0944 123-456", "12345"}

\* phoneNumber.replace(/[^+\d]/g, '')
RECURSIVE stripPhone(_)
stripPhone(str) ==
  IF str = "" THEN ""
  ELSE (IF Head(str) \in Digits \cup {"+"}
          THEN SubSeq(str, 1, 1) ELSE "")
         \o stripPhone(Tail(str))

cleanPhoneNumber(phoneNumber) ==
  LET Plus(cleaned) ==
        IF startsWith(cleaned, "+") THEN cleaned ELSE "+" \o cleaned
  IN  Plus(stripPhone(phoneNumber))

\* /^\+\d{10,15}$/
isValidPhoneNumber(phoneNumber) ==
  /\ startsWith(phoneNumber, "+")
  /\ Len(phoneNumber) - 1 \in 10..15
  /\ AllDigits(Slice(phoneNumber, 2, Len(phoneNumber)))

\* INSERT OR REPLACE INTO devices (device_id, phone_number, last_seen): the
\* row of deviceId is replaced, the columns not named take their defaults
dbUpdateDevicePhone(devs, deviceId, phoneNumber, nowIso) ==
  [d \in DOMAIN devs \cup {deviceId} |->
     IF d = deviceId
       THEN [name |-> "NULL", phone_number |-> phoneNumber,
             last_seen |-> nowIso, is_active |-> 1,
             created_at |-> nowIso]
       ELSE devs[d]]

\* SMSService.updateDevicePhone: a number that is not valid raises before
\* the table is touched
updateDevicePhone(deviceId, phoneNumber) ==
  /\ ~proc.exited
  /\ devices' = IF isValidPhoneNumber(cleanPhoneNumber(phoneNumber))
                  THEN dbUpdateDevicePhone(devices, deviceId,
                         cleanPhoneNumber(phoneNumber), IsoOf[tick])
                  ELSE devices
  /\ devices' # devices
  /\ UNCHANGED <<tick, sock, lastIo, clients, out, nlRx, gps_logs, last,
                 reads, device_commands, sending, proc>>

\* the reads that make and change a session: a heartbeat, login frames with
\* and without a device number, a location and a line no decoder takes
SessionChunks ==
  { "heartbeat\n",
    "login\n",
    "8160528336,login\n",
    "3072866250,35.1234,36.5678,40,0,20250909120000\n",
    "garbage\n" }

\* every event of every connection, with the reads of SessionChunks
SessionNext ==
  \/ \E c \in ClientIds : handleConnection(c)
  \/ \E c \in ClientIds, data \in SessionChunks, fail \in BOOLEAN :
       handleData(c, data, fail)
  \/ \E c \in ClientIds : OnTimeout(c)
  \/ \E c \in ClientIds : OnEnd(c)
  \/ \E c \in ClientIds : OnError(c)
  \/ Tick

SessionSpec == Init /\ [][SessionNext]_vars

\* the most rows the device_commands table gets
MaxCommands == 2

\* command types the API is asked for; selfDestruct has no template
CommandTypes == {"getStatus", "reset", "selfDestruct"}

\* SMSService.generateCommand for the templates without parameters; Null
\* for a type without template
generateCommand(commandType) ==
  IF commandType = "getStatus" THEN "8030000"
  ELSE IF commandType = "reset" THEN "8050000"
  ELSE Null

\* the row insertCommand adds: status as given, the other columns at their
\* defaults
CommandRow(id, deviceId, commandType, commandText, nowIso) ==
  [id |-> id,
   device_id |-> deviceId,
   command_type |-> commandType,
   command_text |-> commandText,
   status |-> "pending",
   sent_at |-> "NULL",
   response_received_at |-> "NULL",
   response_data |-> "NULL",
   created_at |-> nowIso]

\* UPDATE device_commands SET status = ?, response_data = ?, sent_at = CASE
\* WHEN status = 'sent' ..., response_received_at = CASE WHEN status =
\* 'completed' ... WHERE id = ?: the expressions of SET are evaluated on the
\* row as it is before the update, so status in the CASE conditions is the
\* status the row had
updateCommandStatus(cmds, commandId, status, responseData, nowIso) ==
  [i \in 1..Len(cmds) |->
     IF cmds[i].id = commandId
       THEN [cmds[i] EXCEPT
               !.status = status,
               !.response_data = responseData,
               !.sent_at = IF cmds[i].status = "sent" THEN nowIso ELSE @,
               !.response_received_at =
                  IF cmds[i].status = "completed" THEN nowIso ELSE @]
       ELSE cmds[i]]

\* sendCommand up to its await: the device is active and has a phone number,
\* the type has a template, and the command is inserted as pending; in every
\* other case the call raises before it changes anything
sendCommand(deviceId, commandType) ==
  /\ ~proc.exited
  /\ Len(device_commands) < MaxCommands
  /\ deviceId \in DOMAIN devices
  /\ devices[deviceId].is_active = 1
  /\ devices[deviceId].phone_number # "NULL"
  /\ generateCommand(commandType) # Null
  /\ device_commands' =
       Append(device_commands,
              CommandRow(Len(device_commands) + 1, deviceId, commandType,
                         generateCommand(commandType), IsoOf[tick]))
  /\ sending' = sending \cup {Len(device_commands) + 1}
  /\ UNCHANGED <<tick, sock, lastIo, clients, out, nlRx, gps_logs, devices,
                 last, reads, proc>>

\* client.messages.create resolves: the carrier has the SMS, and sendCommand
\* goes on to updateCommandStatus(id, 'sent')
OnSmsAccepted(id) ==
  /\ ~proc.exited
  /\ id \in sending
  /\ device_commands' =
       updateCommandStatus(device_commands, id, "sent", "NULL", IsoOf[tick])
  /\ sending' = sending \ {id}
  /\ UNCHANGED <<tick, sock, lastIo, clients, out, nlRx, gps_logs, devices,
                 last, reads, proc>>

\* client.messages.create rejects: sendCommand raises and the row stays
OnSmsRejected(id) ==
  /\ ~proc.exited
  /\ id \in sending
  /\ sending' = sending \ {id}
  /\ UNCHANGED <<tick, sock, lastIo, clients, out, nlRx, gps_logs, devices,
                 last, reads, device_commands, proc>>

\* getPendingCommands(deviceId): the ids of the rows with status pending of
\* the device
getPendingCommands(cmds, deviceId) ==
  {i \in 1..Len(cmds) :
     cmds[i].status = "pending" /\ cmds[i].device_id = deviceId}

\* the rows that ORDER BY created_at ASC can put first: ids grow with time,
\* and the order of rows of one created_at is not fixed by the query
FirstByCreatedAt(cmds, ids) ==
  {i \in ids : cmds[i].created_at = cmds[Min(ids)].created_at}

\* processIncomingSMS: the device with this phone number, and the first of
\* its pending commands marked completed with body as response
processIncomingSMS(from, body) ==
  /\ ~proc.exited
  /\ \E d \in DOMAIN devices :
       /\ devices[d].phone_number = from
       /\ getPendingCommands(device_commands, d) # {}
       /\ \E i \in FirstByCreatedAt(device_commands,
                                     getPendingCommands(device_commands, d)) :
            device_commands' =
              updateCommandStatus(device_commands, device_commands[i].id,
                                  "completed", body, IsoOf[tick])
  /\ UNCHANGED <<tick, sock, lastIo, clients, out, nlRx, gps_logs, devices,
                 last, reads, sending, proc>>

\* the tracker connections, the clock and the SMS service side by side
ServiceNext ==
  \/ handleConnection(LineClient)
  \/ \E data \in SessionChunks, fail \in BOOLEAN :
       handleData(LineClient, data, fail)
  \/ OnTimeout(LineClient)
  \/ OnEnd(LineClient)
  \/ Tick
  \/ \E d \in DeviceIds, p \in Phones : updateDevicePhone(d, p)

ServiceSpec == Init /\ [][ServiceNext]_vars

\* the SMS service and the clock: phone numbers are registered, commands
\* are sent, the carrier answers and the devices reply
CommandNext ==
  \/ Tick
  \/ \E d \in DeviceIds, p \in Phones : updateDevicePhone(d, p)
  \/ \E d \in DeviceIds, t \in CommandTypes : sendCommand(d, t)
  \/ \E id \in 1..MaxCommands : OnSmsAccepted(id)
  \/ \E id \in 1..MaxCommands : OnSmsRejected(id)
  \/ \E from \in {cleanPhoneNumber(p) : p \in Phones} :
       processIncomingSMS(from, "OK")

CommandSpec == Init /\ [][CommandNext]_vars

(***************************************************************************)
(* index.js                                                                *)
(***************************************************************************)
\* the signals setupGracefulShutdown registers its handler for
Signals == {"SIGINT", "SIGTERM", "SIGQUIT"}

\* GPSTrackerServer.shutdown: every session's socket is ended and the table
\* cleared, the listener and the database handle are closed, and
\* process.exit(0) ends the process
tcpServerShutdown(p) ==
  [p EXCEPT !.tcpServer = "closed", !.tcpDb = "closed", !.exited = TRUE]

\* GPSTrackerAPI.shutdown: the listener and the database handle are closed,
\* and process.exit(0) ends the process
apiServerShutdown(p) ==
  [p EXCEPT !.apiServer = "closed", !.apiDb = "closed", !.exited = TRUE]

\* the handler of setupGracefulShutdown, the first listener of the signal:
\* it returns when a shutdown is in progress, else it sets isShuttingDown
\* and calls tcpServer.shutdown(), then apiServer.shutdown(), then
\* process.exit(0); a call that is reached after the process has exited
\* does not happen
shutdown(signal) ==
  /\ ~proc.exited
  /\ ~proc.isShuttingDown
  /\ LET p1 == tcpServerShutdown([proc EXCEPT !.isShuttingDown = TRUE])
          p2 == IF p1.exited THEN p1 ELSE apiServerShutdown(p1)
      IN  proc' = [p2 EXCEPT !.exited = TRUE]
  /\ sock' = [c \in ClientIds |->
               IF c \in DOMAIN clients /\ sock[c] = "open"
                 THEN "ended" ELSE sock[c]]
  /\ clients' = [k \in {} |-> clients[k]]
  /\ UNCHANGED <<tick, lastIo, out, nlRx, gps_logs, devices, last, reads,
                 device_commands, sending>>

\* the running system: tracker connections and the clock until a signal
\* ends the process
SystemNext ==
  \/ /\ ~proc.exited
     /\ \E c \in ClientIds : handleConnection(c)
  \/ /\ ~proc.exited
     /\ \E c \in ClientIds, data \in SessionChunks, fail \in BOOLEAN :
          handleData(c, data, fail)
  \/ /\ ~proc.exited
     /\ \E c \in ClientIds : OnTimeout(c)
  \/ /\ ~proc.exited
     /\ \E c \in ClientIds : OnEnd(c)
  \/ /\ ~proc.exited
     /\ Tick
  \/ \E signal \in Signals : shutdown(signal)

SystemSpec == Init /\ [][SystemNext]_vars

\* one connection on which single lines arrive, at one clock value
LineNext ==
  \/ handleConnection(LineClient)
  \/ \E data \in Lines, fail \in BOOLEAN : handleData(LineClient, data, fail)
  \/ OnEnd(LineClient)

LineSpec == Init /\ [][LineNext]_vars

\* one connection on which delimited records and positional lines arrive,
\* one per read
CoordNext ==
  \/ handleConnection(LineClient)
  \/ \E data \in HQLines \cup PairLines, fail \in BOOLEAN :
       handleData(LineClient, data, fail)
  \/ OnEnd(LineClient)

CoordSpec == Init /\ [][CoordNext]_vars

\* one connection on which positional lines with Unix time fields arrive
TimeNext ==
  \/ handleConnection(LineClient)
  \/ \E data \in TimeLines, fail \in BOOLEAN : handleData(LineClient, data, fail)
  \/ OnEnd(LineClient)

TimeSpec == Init /\ [][TimeNext]_vars

(***************************************************************************)
(* Properties                                                              *)
(***************************************************************************)
\* the classification of every transport read of the model, from the
\* patterns and the decoders themselves
HeartbeatOf == [data \in Chunks |-> isHeartbeat(trim(data))]

LoginOf == [data \in Chunks |-> isLogin(trim(data))]

DecodesOf == [data \in Chunks |-> parse(trim(data), <<Epoch0, 0>>) # null]

Handled == last.kind # "none"

\* C1: every handled message gets exactly one acknowledgment written to its
\* connection: OK for a heartbeat, LOAD for a login frame, OK for a location
\* that was decoded and persisted, ERROR for a line that is neither
\* heartbeat/login nor any location format (and ERROR when the insert raised)
C1_OneAckPerMessage ==
  [][(reads' # reads /\ last'.kind # "none") =>
       /\ Len(last'.writes) = 1
       /\ last'.writes[1] =
            IF HeartbeatOf[last'.data] THEN "OK"
            ELSE IF LoginOf[last'.data] THEN "LOAD"
            ELSE IF ~DecodesOf[last'.data] THEN "ERROR"
            ELSE IF gps_logs' = gps_logs THEN "ERROR"
            ELSE "OK"
       /\ sock[last'.cid] = "open" =>
            out'[last'.cid] = Append(out[last'.cid], last'.writes[1])
       /\ \A c \in ClientIds \ {last'.cid} : out'[c] = out[c]]_vars

C1_Witness ==
  /\ Handled /\ last.kind = "gps" /\ last.parsed # null /\ ~last.insertThrew
  /\ Len(gps_logs) = 1 /\ out[last.cid] = <<"OK", "LOAD", "OK">>

\* C2: the acknowledgments of a connection follow the lines received, not
\* the transport reads: after the greeting there is one acknowledgment for
\* every newline-terminated line received
C2_AckPerLine ==
  \A c \in ClientIds : sock[c] = "open" => Len(out[c]) = 1 + nlRx[c]

\* C3: a session's device identifier, once set, never changes to a
\* different value
C3_IdentitySetOnce ==
  [][\A c \in ClientIds :
       (/\ c \in DOMAIN clients /\ c \in DOMAIN clients'
        /\ clients[c].deviceId # Null)
         => clients'[c].deviceId = clients[c].deviceId]_vars

\* C4: on a session that has a device identifier, a location line that
\* embeds a different device id is handed to storage under the session's
\* identifier
C4_StickyAttribution ==
  (/\ Handled /\ last.insertCalled /\ last.idBefore # Null
   /\ last.parsed.device_id # "" /\ last.parsed.device_id # last.idBefore)
    => last.insertedId = last.idBefore

\* C5: a decoded record with an empty device-id field is stored under the
\* session's device identifier when the session has one
C5_InheritsSessionId ==
  (/\ Handled /\ last.insertCalled /\ ~last.insertThrew
   /\ last.idBefore # Null /\ last.parsed.device_id = "")
    => /\ gps_logs # <<>>
       /\ gps_logs[Len(gps_logs)].device_id = last.idBefore

\* C6: every record parse returns, and so every record handed to storage,
\* has numeric lat in [-90,90] and lon in [-180,180], not both 0
C6_NoInvalidCoordinates ==
  (Handled /\ last.parsed # null) =>
    /\ ~isNaN(last.parsed.lat) /\ ~isNaN(last.parsed.lon)
    /\ last.parsed.lat >= (0 - 90) * Denom /\ last.parsed.lat <= 90 * Denom
    /\ last.parsed.lon >= (0 - 180) * Denom /\ last.parsed.lon <= 180 * Denom
    /\ ~(last.parsed.lat = 0 /\ last.parsed.lon = 0)

\* the UTC instant of the DDMMYY date and HHMMSS time fields of a *HQ line
HQFieldsUtc(raw) ==
  LET parts == split(Slice(raw, 5, Len(raw) - 1), ",")
  IN  toISOString(DateFromFields("20" \o substr(parts[11], 4, 2),
        substr(parts[11], 2, 2), substr(parts[11], 0, 2),
        substr(parts[3], 0, 2), substr(parts[3], 2, 2),
        substr(parts[3], 4, 2)))

HQUtcOf ==
  [data \in Chunks |->
     IF startsWith(trim(data), "*HQ,") THEN HQFieldsUtc(trim(data)) ELSE ""]

\* C7: the record decoded from a *HQ line carries the UTC instant of its
\* date and time fields, with no offset: 090925 and 211806 give
\* 2025-09-09T21:18:06Z
C7_HQTimestampIsUtc ==
  (Handled /\ last.parsed # null /\ HQUtcOf[last.data] # "") =>
    /\ last.parsed.timestamp = HQUtcOf[last.data]
    /\ (substr(last.raw, 15, 7) = ",211806"
        /\ substr(last.raw, 67, 7) = ",090925")
         => last.parsed.timestamp = "2025-09-09T21:18:06.000Z"

\* C8: a line classified as heartbeat or login is never passed to the
\* decoders and causes no storage insert, also when a decoder would match it
C8_ControlLinesNotDecoded ==
  [][(reads' # reads /\ last'.kind # "none"
      /\ (HeartbeatOf[last'.data] \/ LoginOf[last'.data]))
       => /\ ~last'.parseCalled /\ ~last'.insertCalled
          /\ last'.parsed = null
          /\ gps_logs' = gps_logs /\ devices' = devices]_vars

C8_Witness ==
  /\ Handled /\ LoginOf[last.data] /\ DecodesOf[last.data]
  /\ last.kind = "login" /\ gps_logs = <<>>

\* C9: when the insert raises on an open connection the server replies
\* ERROR, the connection stays open and the session stays in the table with
\* its state (connected-at, identity, counter advanced by this message);
\* nothing is stored
C9_StorageFailureKeepsSession ==
  [][\A c \in ClientIds :
       (/\ reads' # reads /\ last'.cid = c /\ last'.insertThrew
        /\ sock[c] = "open")
         => /\ last'.writes = <<"ERROR">>
            /\ out'[c] = Append(out[c], "ERROR")
            /\ sock'[c] = "open"
            /\ c \in DOMAIN clients /\ c \in DOMAIN clients'
            /\ clients'[c].connectedAt = clients[c].connectedAt
            /\ clients'[c].packetsReceived = clients[c].packetsReceived + 1
            /\ (clients[c].deviceId # Null
                  => clients'[c].deviceId = clients[c].deviceId)
            /\ gps_logs' = gps_logs /\ devices' = devices]_vars

\* after a failed insert a later message on the same connection was
\* classified and acknowledged
C9_Witness ==
  \E c \in ClientIds :
    /\ sock[c] = "open" /\ c \in DOMAIN clients
    /\ out[c] = <<"OK", "ERROR", "OK">>
    /\ clients[c].packetsReceived = 2
    /\ gps_logs = <<>> /\ last.kind = "heartbeat"

\* the sessions whose socket is open and has seen no bytes for the window
IdleSessions ==
  {c \in DOMAIN clients : sock[c] = "open" /\ Expired(c)}

\* C10: once the inactivity window of a session has run out, the session
\* is eventually removed from the live-session table
C10_IdleSessionRemoved ==
  \A c \in ClientIds : (c \in IdleSessions) ~> (c \notin DOMAIN clients)

\* the control tokens of the wire protocol
HeartbeatTokens == {"heartbeat", "ping", "alive"}

LoginTokens == {"login", "connect", "hello"}

\* the text of a line after its <digits>, prefix, the whole line when it has
\* no such prefix
TokenOf(raw) ==
  LET After(n) ==
        IF n >= 1 /\ Ch(raw, n + 1) = "," THEN Slice(raw, n + 2, Len(raw))
        ELSE raw
  IN  After(DigitRunLen(raw, 1))

\* C11: a line t or <digits>,t is handled as a heartbeat and answered OK
\* when t is heartbeat, ping or alive, and handled as a login and answered
\* LOAD when t is login, connect or hello
C11_ControlTokens ==
  [][(reads' # reads /\ last'.kind # "none") =>
       /\ TokenOf(last'.raw) \in HeartbeatTokens
            => last'.kind = "heartbeat" /\ last'.writes = <<"OK">>
       /\ TokenOf(last'.raw) \in LoginTokens
            => last'.kind = "login" /\ last'.writes = <<"LOAD">>]_vars

\* a line with the literal prefix of the tagged format and the keys ID, Lat
\* and Lon
IsTaggedLine(raw) ==
  /\ startsWith(toLowerCase(raw), "st900,")
  /\ {"id", "lat", "lon"} \subseteq DOMAIN KvPairs(raw)

\* C12: a tagged line with the ID, Lat and Lon keys is acknowledged OK and
\* stored also when Speed or Time is absent: an absent speed is stored as 0,
\* an absent time as the arrival time
C12_TaggedDefaults ==
  [][(/\ reads' # reads /\ last'.kind # "none" /\ sock[last'.cid] = "open"
      /\ IsTaggedLine(last'.raw) /\ ~last'.insertThrew)
       => /\ last'.writes = <<"OK">>
          /\ Len(gps_logs') = Len(gps_logs) + 1
          /\ "speed" \notin DOMAIN KvPairs(last'.raw)
               => gps_logs'[Len(gps_logs')].speed = 0
          /\ "time" \notin DOMAIN KvPairs(last'.raw)
               => gps_logs'[Len(gps_logs')].timestamp = IsoOf[tick]]_vars

\* what each decoder alone makes of every single line, in the order tagged,
\* positional, key:value, delimited record
DecodersOf ==
  [data \in Lines |->
     <<parseStandardFormat(trim(data), TickNow(0)),
       parseCommaDelimited(trim(data), TickNow(0)),
       parseAlternativeFormat(trim(data), TickNow(0)),
       parseHQFormat(trim(data), TickNow(0))>>]

\* the record parse returned has the fields of the decoder's record r
SameRecord(parsed, r) ==
  /\ parsed # null
  /\ parsed.device_id = r.device_id
  /\ parsed.lat = r.lat /\ parsed.lon = r.lon
  /\ parsed.speed = r.speed /\ parsed.heading = r.heading
  /\ parsed.altitude = r.altitude /\ parsed.timestamp = r.timestamp

\* C13: the result of parse is the result of the first decoder, in the
\* order tagged, positional, key:value, delimited record, that matches the
\* line, and null when none matches; a line the tagged decoder matches is
\* decoded with the device id of its ID key
C13_DecoderPriority ==
  [][(reads' # reads /\ last'.kind = "gps" /\ tick = 0) =>
       /\ (\A k \in 1..4 : DecodersOf[last'.data][k] = null)
            => last'.parsed = null
       /\ \A k \in 1..4 :
            (/\ DecodersOf[last'.data][k] # null
             /\ \A j \in 1..(k - 1) : DecodersOf[last'.data][j] = null)
              => SameRecord(last'.parsed, DecodersOf[last'.data][k])
       /\ DecodersOf[last'.data][1] # null
            => /\ last'.parsed # null
               /\ last'.parsed.device_id = KvPairs(last'.raw)["id"]]_vars

\* a line that both the tagged and the positional decoder match was decoded
\* and stored under the device id of its ID key
C13_Witness ==
  /\ Handled /\ last.data \in Lines
  /\ DecodersOf[last.data][1] # null /\ DecodersOf[last.data][2] # null
  /\ DecodersOf[last.data][1].device_id # DecodersOf[last.data][2].device_id
  /\ last.parsed # null
  /\ last.parsed.device_id = DecodersOf[last.data][1].device_id
  /\ gps_logs # <<>>
  /\ gps_logs[Len(gps_logs)].device_id = "8160528336"

\* C14: the step that accepts a connection writes OK as the first thing on
\* it, handles no data in that step, and starts the session with no message
\* counted; every later handling of data on the connection finds the OK
\* already written first
C14_GreetingFirst ==
  [][\A c \in ClientIds :
       /\ (sock[c] = "none" /\ sock'[c] # "none")
            => /\ out'[c] = <<"OK">>
               /\ reads' = reads
               /\ c \in DOMAIN clients'
               /\ clients'[c].packetsReceived = 0
       /\ (reads' # reads /\ last'.cid = c)
            => /\ out[c] # <<>> /\ Head(out[c]) = "OK"
               /\ SubSeq(out'[c], 1, Len(out[c])) = out[c]]_vars

\* a connection whose greeting was followed by the acknowledgment of a
\* message handled on it
C14_Witness ==
  \E c \in ClientIds :
    /\ c \in DOMAIN clients /\ clients[c].packetsReceived >= 1
    /\ last.cid = c /\ last.writes # <<>>
    /\ Len(out[c]) >= 2 /\ Head(out[c]) = "OK"
    /\ out[c] = <<"OK">> \o SubSeq(out[c], 2, Len(out[c]))

\* the lines that isHeartbeat accepts
IsHeartbeatLine == [data \in Lines |-> isHeartbeat(trim(data))]

\* C15: a line that is a heartbeat (any of the heartbeat patterns, the one
\* that starts with a ten-digit number included), handled on a session whose
\* deviceId is null, is answered OK alone and leaves the deviceId null;
\* nothing is stored and no device is registered
C15_HeartbeatBindsNothing ==
  [][(/\ reads' # reads /\ last'.kind # "none"
      /\ IsHeartbeatLine[last'.data]
      /\ last'.cid \in DOMAIN clients
      /\ clients[last'.cid].deviceId = Null)
       => /\ last'.writes = <<"OK">>
          /\ last'.cid \in DOMAIN clients'
          /\ clients'[last'.cid].deviceId = Null
          /\ gps_logs' = gps_logs
          /\ devices' = devices]_vars

\* the heartbeat that starts with a ten-digit number was answered OK on a
\* session that is still without deviceId
C15_Witness ==
  /\ last.kind = "heartbeat"
  /\ DigitRunLen(last.raw, 1) >= 10
  /\ last.idBefore = Null
  /\ last.writes = <<"OK">>
  /\ last.cid \in DOMAIN clients
  /\ clients[last.cid].deviceId = Null

\* C16: while a session stays in the clients table, a deviceId that is set
\* is not set back to null (nor to the empty string) by any step
C16_DeviceIdNeverCleared ==
  [][\A c \in DOMAIN clients \cap DOMAIN clients' :
       clients[c].deviceId # Null
         => clients'[c].deviceId \notin {Null, ""}]_vars

\* a login frame that carries no number was handled on a session that had a
\* deviceId, and the session still has it
C16_Witness ==
  /\ last.kind = "login"
  /\ last.idBefore # Null
  /\ FirstLongDigitRun(last.raw) = ""
  /\ last.cid \in DOMAIN clients
  /\ clients[last.cid].deviceId = last.idBefore

\* the first run of ten or more digits of s, found from the windows of ten
\* characters that are all digits; Null when s has no such window
ExpectedLoginId(s) ==
  LET Run(i, ends) == Slice(s, i, Max(ends))
      From(i) == Run(i, {j \in (i + 9)..Len(s) : AllDigits(Slice(s, i, j))})
      First(starts) == IF starts = {} THEN Null ELSE From(Min(starts))
  IN  First({i \in 1..(Len(s) - 9) : AllDigits(Slice(s, i, i + 9))})

\* the lines that isLogin accepts
IsLoginLine == [data \in Lines |-> isLogin(trim(data))]

\* the first run of ten or more digits of every line
LoginIdOf == [data \in Lines |-> ExpectedLoginId(trim(data))]

\* C17: a login frame handled on a session whose deviceId is null is
\* answered LOAD alone, and the deviceId becomes the first run of ten or
\* more digits of the frame, or stays null when the frame has no such run
C17_LoginIdentifies ==
  [][(/\ reads' # reads /\ last'.kind # "none"
      /\ IsLoginLine[last'.data] /\ ~IsHeartbeatLine[last'.data]
      /\ last'.cid \in DOMAIN clients
      /\ clients[last'.cid].deviceId = Null)
       => /\ last'.writes = <<"LOAD">>
          /\ last'.cid \in DOMAIN clients'
          /\ clients'[last'.cid].deviceId = LoginIdOf[last'.data]]_vars

\* a login frame with a short run of digits before its first long one
\* identified a session that had no deviceId
C17_Witness ==
  /\ last.kind = "login"
  /\ last.idBefore = Null
  /\ DigitRunLen(last.raw, 1) \in 1..9
  /\ last.writes = <<"LOAD">>
  /\ last.cid \in DOMAIN clients
  /\ clients[last.cid].deviceId = "8160528336"

\* C18: the step in which the transport of a connection goes away (end or
\* error) leaves no session of it in the clients table, and a session
\* appears in the table only in the step that accepts a new connection, as a
\* fresh session, so a removed session never comes back
C18_ClosedSessionRemoved ==
  [][\A c \in ClientIds :
       /\ (sock[c] # "none" /\ sock'[c] = "none") => c \notin DOMAIN clients'
       /\ (c \notin DOMAIN clients /\ c \in DOMAIN clients')
            => /\ sock[c] = "none" /\ sock'[c] = "open"
               /\ clients'[c].deviceId = Null
               /\ clients'[c].packetsReceived = 0
               /\ clients'[c].connectedAt = IsoOf[tick]]_vars

\* a connection that had a message handled is gone, and so is its session
C18_Witness ==
  \E c \in ClientIds :
    /\ sock[c] = "none"
    /\ c \notin DOMAIN clients
    /\ last.cid = c /\ last.idBefore = Null /\ last.kind = "login"
    /\ Len(out[c]) >= 2

\* the step is an event of connection c: its transport changes state, or a
\* read of it is handled
EventOf(c) ==
  \/ sock'[c] # sock[c]
  \/ reads' # reads /\ last'.cid = c

\* C19: every step is an event of at most one connection, and a session
\* that the step changes or removes from the clients table is the session of
\* that connection; the sessions of all other connections stay in the table
\* with the same deviceId, packetsReceived, connectedAt and lastActivity
C19_SessionsIsolated ==
  [][/\ \A c, d \in ClientIds : EventOf(c) /\ EventOf(d) => c = d
     /\ \A d \in DOMAIN clients :
          ~EventOf(d) => d \in DOMAIN clients' /\ clients'[d] = clients[d]]_vars

\* two sessions side by side: one has handled a location and carries its
\* deviceId, the other is as it was when its connection was accepted
C19_Witness ==
  \E c, d \in DOMAIN clients :
    /\ c # d
    /\ last.cid = c /\ last.kind = "gps"
    /\ clients[c].packetsReceived >= 1 /\ clients[c].deviceId # Null
    /\ clients[d].packetsReceived = 0 /\ clients[d].deviceId = Null

\* raw is a delimited record: between the markers *HQ, and # it has twelve
\* or more comma-separated fields
IsHQLine(raw) ==
  /\ startsWith(raw, "*HQ,") /\ endsWith(raw, "#")
  /\ Len(split(Slice(raw, 5, Len(raw) - 1), ",")) >= 12

\* the validity flag of a delimited record
HQFlag(raw) == split(Slice(raw, 5, Len(raw) - 1), ",")[4]

\* the delimited records whose validity flag is not A
IsInvalidFixLine ==
  [data \in Lines |-> IsHQLine(trim(data)) /\ HQFlag(trim(data)) # "A"]

\* a delimited record whose validity flag is not A is handled on a live
\* session
InvalidFixHandled ==
  /\ reads' # reads /\ last'.kind # "none" /\ tick = 0
  /\ IsInvalidFixLine[last'.data]
  /\ last'.cid \in DOMAIN clients

\* C20 as stated: a delimited record whose validity flag is not A is not
\* decoded as a location; it is answered ERROR alone, nothing is stored, no
\* device is registered and the session's deviceId stays as it was
C20_InvalidFixRejected ==
  [][InvalidFixHandled
       => /\ last'.parsed = null
          /\ last'.writes = <<"ERROR">>
          /\ gps_logs' = gps_logs
          /\ devices' = devices
          /\ last'.cid \in DOMAIN clients'
          /\ clients'[last'.cid].deviceId = clients[last'.cid].deviceId]_vars

\* C20, amended: a delimited record whose validity flag is not A is never
\* decoded by the delimited-record decoder: a record made from it is the
\* record of the tagged, positional or key:value decoder; and when it is no
\* login line and none of these three matches it, it is answered ERROR
\* alone, nothing is stored, no device is registered and the session's
\* deviceId stays as it was
C20_InvalidFixNoMatch ==
  [][(/\ InvalidFixHandled
      /\ ~IsHeartbeatLine[last'.data] /\ ~IsLoginLine[last'.data])
       => /\ last'.parsed # null
               => \E k \in 1..3 :
                    /\ DecodersOf[last'.data][k] # null
                    /\ SameRecord(last'.parsed, DecodersOf[last'.data][k])
          /\ (\A k \in 1..3 : DecodersOf[last'.data][k] = null)
               => /\ last'.parsed = null
                  /\ last'.writes = <<"ERROR">>
                  /\ gps_logs' = gps_logs
                  /\ devices' = devices
                  /\ last'.cid \in DOMAIN clients'
                  /\ clients'[last'.cid].deviceId
                       = clients[last'.cid].deviceId]_vars

\* a delimited record with flag V that no other decoder matches was answered
\* ERROR on a session that is still without deviceId
C20_Witness ==
  /\ last.kind = "gps" /\ last.data \in Lines
  /\ IsHQLine(last.raw) /\ HQFlag(last.raw) = "V"
  /\ \A k \in 1..3 : DecodersOf[last.data][k] = null
  /\ last.parsed = null /\ last.writes = <<"ERROR">>
  /\ last.cid \in DOMAIN clients
  /\ clients[last.cid].deviceId = Null

\* the position of every delimited record of HQLines
CaseOf == [data \in HQLines |-> CHOOSE c \in HQCases : HQLineOf(c) = data]

\* D + M/60 degrees in units of 1/Denom, negative for the direction neg
ExpectedDegrees(n, dir, neg) ==
  IF dir = neg THEN 0 - (n.D * Denom + n.M) ELSE n.D * Denom + n.M

ExpectedLat(c) == ExpectedDegrees(c[1], c[2], "S")

ExpectedLon(c) == ExpectedDegrees(c[3], c[4], "W")

\* the position c is within the coordinate range and is not (0,0)
InRange(c) ==
  /\ ExpectedLat(c) >= 0 - 90 * Denom /\ ExpectedLat(c) <= 90 * Denom
  /\ ExpectedLon(c) >= 0 - 180 * Denom /\ ExpectedLon(c) <= 180 * Denom
  /\ ~(ExpectedLat(c) = 0 /\ ExpectedLon(c) = 0)

C22_SecondsEqualMillis ==
  \A u \in UnixSeconds :
    \A i, j \in 1..Len(gps_logs) :
      (/\ gps_logs[i].raw_data = TimeLineOf(u[1])
       /\ gps_logs[j].raw_data = TimeLineOf(u[1] \o "000"))
        => /\ gps_logs[i].timestamp = gps_logs[j].timestamp
           /\ gps_logs[i].timestamp = u[2]

\* 1700000000 and 1700000000000 were both stored, with one timestamp
C22_Witness ==
  /\ Len(gps_logs) = 2
  /\ gps_logs[1].raw_data = TimeLineOf("1700000000")
  /\ gps_logs[2].raw_data = TimeLineOf("1700000000000")
  /\ gps_logs[1].timestamp = "2023-11-14T22:13:20.000Z"
  /\ gps_logs[2].timestamp = gps_logs[1].timestamp

\* the latitude and longitude of every positional line of PairLines
PairOf == [data \in PairLines |-> CHOOSE c \in PairCases : PairLineOf(c) = data]

\* numeric, lat in [-90, 90], lon in [-180, 180], bounds included, not (0,0)
Acceptable(c) ==
  /\ c.numeric
  /\ c.latV >= 0 - 90 * Scale /\ c.latV <= 90 * Scale
  /\ c.lonV >= 0 - 180 * Scale /\ c.lonV <= 180 * Scale
  /\ ~(c.latV = 0 /\ c.lonV = 0)

\* C23: a line is decoded exactly when its latitude and longitude are
\* numbers with lat in [-90, 90] and lon in [-180, 180], bounds included,
\* and are not both 0; the record carries these two numbers
C23_CoordinateGate ==
  [][(reads' # reads /\ last'.kind = "gps" /\ last'.data \in PairLines)
       => /\ last'.parsed # null <=> Acceptable(PairOf[last'.data])
          /\ last'.parsed # null
               => /\ last'.parsed.lat = PairOf[last'.data].latV * (Denom \div Scale)
                  /\ last'.parsed.lon = PairOf[last'.data].lonV * (Denom \div Scale)
          /\ last'.parsed = null
               => last'.writes = <<"ERROR">> /\ gps_logs' = gps_logs]_vars

\* (90, 180) was decoded and stored after (0, 0) was answered ERROR
C23_Witness ==
  /\ last.kind = "gps" /\ last.data \in PairLines
  /\ last.parsed # null
  /\ last.parsed.lat = 90 * Denom /\ last.parsed.lon = 180 * Denom
  /\ Len(gps_logs) = 1 /\ gps_logs[1].lon = 180 * Denom
  /\ Len(out[last.cid]) = 3 /\ out[last.cid][2] = "ERROR"
  /\ out[last.cid][3] = "OK"

\* C24: every stored location has speed >= 0 and heading from 0 to 360, and
\* has speed, heading and altitude 0 where the line gave none
C24_MotionRanges ==
  \A i \in 1..Len(gps_logs) :
    /\ gps_logs[i].speed >= 0
    /\ gps_logs[i].heading >= 0 /\ gps_logs[i].heading <= 360 * Denom
    /\ gps_logs[i].altitude >= 0

\* C25: when a line is decoded to a record with a device id on a session
\* whose deviceId is null, the session's deviceId becomes the record's
\* device id, also when the insert of the record raises (a session that the
\* failed write of the reply removes in the same step has no deviceId left)
C25_BackfillFromRecord ==
  [][(/\ reads' # reads /\ last'.kind = "gps"
      /\ last'.parsed # null /\ last'.parsed.device_id # ""
      /\ last'.cid \in DOMAIN clients
      /\ clients[last'.cid].deviceId = Null)
       => (last'.cid \in DOMAIN clients'
             => clients'[last'.cid].deviceId = last'.parsed.device_id)]_vars

\* the insert raised, nothing was stored, and the session carries the device
\* id of the record all the same
C25_Witness ==
  /\ last.kind = "gps" /\ last.parsed # null
  /\ last.insertThrew /\ last.writes = <<"ERROR">>
  /\ gps_logs = <<>>
  /\ last.idBefore = Null
  /\ last.cid \in DOMAIN clients
  /\ clients[last.cid].deviceId = "3072866250"

\* the lines on which the attempt of the positional decoder fails: six or
\* more fields, and coordinates that are no numbers or fail the validation
PositionalFails ==
  [data \in Lines |->
     /\ Len(split(trim(data), ",")) >= 6
     /\ LET lat == parseFloat(split(trim(data), ",")[2])
            lon == parseFloat(split(trim(data), ",")[3])
        IN  isNaN(lat) \/ isNaN(lon) \/ ~isValidCoordinate(lat, lon)]

\* the delimited records with flag A whose date field names no day: the
\* decoder's toISOString raises on them
HQDateRaises ==
  [data \in Lines |->
     /\ IsHQLine(trim(data)) /\ HQFlag(trim(data)) = "A"
     /\ LET dateStr == split(Slice(trim(data), 5, Len(trim(data)) - 1), ",")[11]
        IN  \/ ~IsField(dateStr, 6)
            \/ parseInt(substr(dateStr, 2, 2)) \notin 1..12
            \/ parseInt(substr(dateStr, 0, 2)) \notin 1..31]

\* C26: parse returns a location record or null for every line, and the
\* line gets its one reply; a line on which the positional decoder's attempt
\* fails and which the key:value or the delimited-record decoder matches is
\* decoded to that decoder's record; a delimited record on which the
\* decoder's date conversion raises is answered ERROR, when no other decoder
\* matches it
C26_FailureContained ==
  [][(reads' # reads /\ last'.kind = "gps" /\ last'.data \in Lines)
       => /\ last'.parsed.type \in {"null", "location"}
          /\ Len(last'.writes) = 1
          /\ (PositionalFails[last'.data] /\ DecodersOf[last'.data][1] = null)
               => \A k \in 3..4 :
                    (/\ DecodersOf[last'.data][k] # null
                     /\ \A j \in 3..(k - 1) : DecodersOf[last'.data][j] = null)
                      => /\ SameRecord(last'.parsed, DecodersOf[last'.data][k])
                         /\ ~last'.insertThrew => last'.writes = <<"OK">>
          /\ (/\ HQDateRaises[last'.data]
              /\ \A k \in 1..3 : DecodersOf[last'.data][k] = null)
               => last'.parsed = null /\ last'.writes = <<"ERROR">>]_vars

\* the positional decoder could not accept latitude 95 of a line, and the
\* line was stored as the key:value decoder reads it
C26_Witness ==
  /\ last.kind = "gps" /\ last.data \in Lines
  /\ PositionalFails[last.data]
  /\ DecodersOf[last.data][1] = null /\ DecodersOf[last.data][3] # null
  /\ parseFloat(split(last.raw, ",")[2]) = 95 * Denom
  /\ last.parsed # null /\ last.parsed.device_id = "8160528336"
  /\ last.writes = <<"OK">>
  /\ Len(gps_logs) = 1 /\ gps_logs[1].device_id = "8160528336"

\* C27: the insert of a location sets last_seen of the device to the time
\* of the insert and leaves name, phone_number, is_active and created_at of
\* its row as they were
C27_InsertKeepsDeviceRow ==
  [][\A d \in DOMAIN devices :
       (/\ Len(gps_logs') = Len(gps_logs) + 1
        /\ gps_logs'[Len(gps_logs')].device_id = d)
         => /\ d \in DOMAIN devices'
            /\ devices'[d].last_seen = IsoOf[tick]
            /\ devices'[d].name = devices[d].name
            /\ devices'[d].phone_number = devices[d].phone_number
            /\ devices'[d].is_active = devices[d].is_active
            /\ devices'[d].created_at = devices[d].created_at]_vars

\* C28: the status of a command only goes from pending to sent and from
\* sent to completed; a command that is sent is not waiting for the carrier
\* any more; and the command that becomes completed is the oldest command of
\* its device that is sent
C28_CommandLifecycle ==
  [][\A i \in 1..Len(device_commands) :
       /\ \/ device_commands'[i].status = device_commands[i].status
          \/ /\ device_commands[i].status = "pending"
             /\ device_commands'[i].status = "sent"
             /\ i \notin sending'
          \/ /\ device_commands[i].status = "sent"
             /\ device_commands'[i].status = "completed"
             /\ \A j \in 1..(i - 1) :
                  device_commands[j].device_id = device_commands[i].device_id
                    => device_commands[j].status # "sent"]_vars

\* C29: the update that makes a command sent sets its sent_at to the time of
\* the update and leaves response_received_at; the update that makes it
\* completed sets response_received_at to the time of the update and leaves
\* sent_at
C29_StatusTimestamps ==
  [][\A i \in 1..Len(device_commands) :
       /\ (/\ device_commands[i].status # "sent"
           /\ device_commands'[i].status = "sent")
            => /\ device_commands'[i].sent_at = IsoOf[tick]
               /\ device_commands'[i].response_received_at
                    = device_commands[i].response_received_at
       /\ (/\ device_commands[i].status # "completed"
           /\ device_commands'[i].status = "completed")
            => /\ device_commands'[i].response_received_at = IsoOf[tick]
               /\ device_commands'[i].sent_at
                    = device_commands[i].sent_at]_vars

\* C30: when the process exits on a shutdown signal, the TCP server has been
\* shut down and the HTTP API server has been shut down, its listener and
\* its database handle closed; and while a shutdown is in progress a signal
\* starts no second one
C30_OrderlyShutdown ==
  [][/\ (~proc.exited /\ proc'.exited)
          => /\ proc'.tcpServer = "closed"
             /\ proc'.tcpDb = "closed"
             /\ proc'.apiServer = "closed"
             /\ proc'.apiDb = "closed"
     /\ proc.isShuttingDown => proc' = proc]_vars
====
